---- MODULE Spec2Model ----
(***************************************************************************)
(* Model of grip/readers.py: DirectoryReader (path resolution, normalize,  *)
(* is_binary, last_updated, read) over a small POSIX file system, and      *)
(* StdinReader's lazy fill, sequentially and with two concurrent callers.  *)
(*                                                                         *)
(* A Python str is a sequence of tokens: the separator "/" or a whole path *)
(* component ("x", "..", "README.md").  Two components are never adjacent, *)
(* so a token sequence stands for exactly one string.  None is the         *)
(* one-token sequence <<"None">>, which is no path.                        *)
(***************************************************************************)
EXTENDS Naturals, Sequences, FiniteSets

VARIABLES
    kind,       \* file system: node -> "file" | "dir" | "missing"
    path,       \* DirectoryReader.path
    filename,   \* DirectoryReader.filename
    directory,  \* DirectoryReader.directory
    subpath,    \* the subpath of the request
    op,         \* the method last called on the DirectoryReader
    result,     \* what that call returned or raised
    text,       \* StdinReader.text
    stdin,      \* what is left unread on sys.stdin
    original,   \* what sys.stdin held at start
    drains,     \* number of read_stdin calls made
    log,        \* the single caller's completed calls
    pc,         \* per caller: position inside StdinReader.read
    arg,        \* per caller: subpath of the call in progress
    tmp,        \* per caller: what its read_stdin has read so far
    ret,        \* per caller: value returned by its last completed call
    ncalls,     \* per caller: calls started
    first       \* progress of the first read(None) among concurrent callers

dirVars == <<kind, path, filename, directory, subpath, op, result>>
stdinVars == <<text, stdin, original, drains, log>>
callerVars == <<pc, arg, tmp, ret, ncalls, first>>
vars == <<kind, path, filename, directory, subpath, op, result,
          text, stdin, original, drains, log, pc, arg, tmp, ret, ncalls, first>>

-----------------------------------------------------------------------------
(* Bounds *)

MaxLen == 5
MaxInput == 2
MaxReads == 3
MaxCalls == 2

-----------------------------------------------------------------------------
(* Values *)

SEP == "/"
NoneP == <<"None">>

NoneR == [kind |-> "None", val |-> <<>>]
Str(v) == [kind |-> "str", val |-> v]
Bytes(v) == [kind |-> "bytes", val |-> v]
Float(v) == [kind |-> "float", val |-> v]
Bool(b) == [kind |-> "bool", val |-> IF b THEN <<"True">> ELSE <<"False">>]
Raise(e) == [kind |-> "raise", val |-> <<e>>]
Idle == [kind |-> "idle", val |-> <<>>]

-----------------------------------------------------------------------------
(* str methods *)

startswith_sep(s) == Len(s) > 0 /\ s[1] = SEP
endswith_sep(s) == Len(s) > 0 /\ s[Len(s)] = SEP

RECURSIVE rstrip_sep(_)
rstrip_sep(s) ==
    IF endswith_sep(s) THEN rstrip_sep(SubSeq(s, 1, Len(s) - 1)) ELSE s

RECURSIVE rfind_sep(_, _)
rfind_sep(s, i) ==
    IF i = 0 THEN 0 ELSE IF s[i] = SEP THEN i ELSE rfind_sep(s, i - 1)

AllSep(s) == \A i \in 1..Len(s) : s[i] = SEP

\* str.split('/') with the empty components left out
Comps(s) == SelectSeq(s, LAMBDA t : t # SEP)

RECURSIVE sep_join(_)
sep_join(comps) ==
    IF Len(comps) = 0 THEN <<>>
    ELSE IF Len(comps) = 1 THEN comps
    ELSE <<comps[1], SEP>> \o sep_join(Tail(comps))

-----------------------------------------------------------------------------
(* posixpath *)

posixpath_split(p) ==
    LET i == rfind_sep(p, Len(p))
        head == SubSeq(p, 1, i)
        tail == SubSeq(p, i + 1, Len(p))
    IN  <<IF head # <<>> /\ ~AllSep(head) THEN rstrip_sep(head) ELSE head, tail>>

os_path_join(a, b) ==
    IF startswith_sep(b) THEN b
    ELSE IF a = <<>> \/ endswith_sep(a) THEN a \o b
    ELSE a \o <<SEP>> \o b

os_path_dirname(p) == posixpath_split(p)[1]

os_path_isabs(p) == startswith_sep(p)

initial_slashes(p) ==
    IF ~startswith_sep(p) THEN 0
    ELSE IF Len(p) >= 2 /\ p[2] = SEP /\ ~(Len(p) >= 3 /\ p[3] = SEP) THEN 2
    ELSE 1

RECURSIVE new_comps(_, _, _)
new_comps(comps, slashes, acc) ==
    IF comps = <<>> THEN acc
    ELSE LET comp == Head(comps)
             rest == Tail(comps)
         IN  IF comp = "." THEN new_comps(rest, slashes, acc)
             ELSE IF \/ comp # ".."
                     \/ (slashes = 0 /\ acc = <<>>)
                     \/ (acc # <<>> /\ acc[Len(acc)] = "..")
                  THEN new_comps(rest, slashes, Append(acc, comp))
             ELSE IF acc # <<>>
                  THEN new_comps(rest, slashes, SubSeq(acc, 1, Len(acc) - 1))
             ELSE new_comps(rest, slashes, acc)

posixpath_normpath(p) ==
    IF p = <<>> THEN <<".">>
    ELSE LET n == initial_slashes(p)
             joined == [i \in 1..n |-> SEP] \o sep_join(new_comps(Comps(p), n, <<>>))
         IN  IF joined = <<>> THEN <<".">> ELSE joined

-----------------------------------------------------------------------------
(* flask.safe_join: the name is normalized, and a name that is absolute or *)
(* leads above the directory raises NotFound.  (Flask 0.10 also normalizes *)
(* the empty name, to '.', which names the same directory.)                *)

unsafe_join(dir, name) ==
    [ok |-> TRUE, val |-> os_path_join(dir, name)]

safe_join(dir, name) ==
    LET fn == IF name # <<>> THEN posixpath_normpath(name) ELSE name
    IN  IF \/ os_path_isabs(fn)
           \/ fn = <<"..">>
           \/ (Len(fn) >= 2 /\ fn[1] = ".." /\ fn[2] = SEP)
        THEN [ok |-> FALSE, val |-> <<"NotFound">>]
        ELSE [ok |-> TRUE, val |-> os_path_join(dir, fn)]

-----------------------------------------------------------------------------
(* The file system.  A node is the sequence of names leading to it from    *)
(* the root directory <<>>, which is also the process's working directory. *)
(* /x lies outside the directory d that the reader is given.               *)

Universe ==
    { <<>>, <<"x">>, <<"d">>,
      <<"d", "README.md">>,
      <<"d", "x">>, <<"d", "x", "README.md">>, <<"d", "x", "README.png">>,
      <<"d", "a.png">>, <<"d", "a.png", "README.md">> }

Parent(n) == IF n = <<>> THEN <<>> ELSE SubSeq(n, 1, Len(n) - 1)

IsReadme(n) == n # <<>> /\ n[Len(n)] \in {"README.md", "README.png"}

WellFormed(k) ==
    /\ k[<<>>] = "dir"
    /\ k[<<"d">>] = "dir"
    /\ k[<<"x">>] = "file"
    /\ \A n \in Universe :
        /\ IsReadme(n) => k[n] # "dir"
        /\ (n # <<>> /\ k[Parent(n)] # "dir") => k[n] = "missing"

FileSystems == { k \in [Universe -> {"file", "dir", "missing"}] : WellFormed(k) }

\* Every file holds content of its own, and every node has an mtime of its own.
FileData(n) == <<"data">> \o n
MTime(n) == <<"mtime">> \o n

\* Whether a file's bytes decode as UTF-8: the PNG images do not.
IsUtf8(n) == n[Len(n)] \notin {"a.png", "README.png"}

Exists(n) == n \in Universe /\ kind[n] # "missing"

RECURSIVE walk(_, _)
walk(cur, comps) ==
    IF comps = <<>> THEN [err |-> "OK", node |-> cur]
    ELSE IF kind[cur] # "dir" THEN [err |-> "ENOTDIR", node |-> cur]
    ELSE LET c == Head(comps)
             rest == Tail(comps)
         IN  IF c = "." THEN walk(cur, rest)
             ELSE IF c = ".." THEN walk(Parent(cur), rest)
             ELSE IF Exists(Append(cur, c)) THEN walk(Append(cur, c), rest)
             ELSE [err |-> "ENOENT", node |-> cur]

\* Path resolution by the kernel (stat, open).
Resolve(p) ==
    IF p = <<>> THEN [err |-> "ENOENT", node |-> <<>>]
    ELSE LET w == walk(<<>>, Comps(p))
         IN  IF w.err = "OK" /\ endswith_sep(p) /\ kind[w.node] # "dir"
             THEN [err |-> "ENOTDIR", node |-> w.node]
             ELSE w

os_path_isdir(p) == Resolve(p).err = "OK" /\ kind[Resolve(p).node] = "dir"
os_path_isfile(p) == Resolve(p).err = "OK" /\ kind[Resolve(p).node] = "file"

os_path_getmtime(p) ==
    LET r == Resolve(p)
    IN  IF r.err = "OK" THEN Float(MTime(r.node)) ELSE Raise(r.err)

io_open(p) ==
    LET r == Resolve(p)
    IN  IF r.err = "OK" /\ kind[r.node] = "dir"
        THEN [err |-> "EISDIR", node |-> r.node]
        ELSE r

-----------------------------------------------------------------------------
(* grip.constants, grip.resolver *)

DEFAULT_FILENAMES ==
    <<"README.md", "README.rst", "README.markdown", "README.txt", "README">>

RECURSIVE first_file(_, _)
first_file(dirpath, i) ==
    IF i > Len(DEFAULT_FILENAMES) THEN NoneP
    ELSE IF os_path_isfile(os_path_join(dirpath, <<DEFAULT_FILENAMES[i]>>))
         THEN os_path_join(dirpath, <<DEFAULT_FILENAMES[i]>>)
    ELSE first_file(dirpath, i + 1)

find_file(dirpath) == first_file(dirpath, 1)

-----------------------------------------------------------------------------
(* ReadmeReader *)

\* mimetypes.guess_type: by the extension of the last component.
guess_type(sp) ==
    IF sp = <<>> \/ endswith_sep(sp) THEN NoneP
    ELSE LET name == sp[Len(sp)]
         IN  IF name \in {"a.png", "README.png"} THEN <<"image", SEP, "png">>
             ELSE IF name = "README.md" THEN <<"text", SEP, "markdown">>
             ELSE NoneP

mimetype_for(sp) == IF sp = NoneP THEN NoneP ELSE guess_type(sp)

startswith_image(m) == Len(m) >= 2 /\ m[1] = "image" /\ m[2] = SEP

-----------------------------------------------------------------------------
(* DirectoryReader *)

read_text_file(fn) ==
    LET f == io_open(fn)
    IN  IF f.err = "OK"
        THEN IF IsUtf8(f.node) THEN Str(FileData(f.node))
             ELSE Raise("UnicodeDecodeError")
        ELSE IF f.err = "ENOENT" THEN NoneR
        ELSE Raise(f.err)

read_binary_file(fn) ==
    LET f == io_open(fn)
    IN  IF f.err = "OK" THEN Bytes(FileData(f.node))
        ELSE IF f.err = "ENOENT" THEN NoneR
        ELSE Raise(f.err)

filename_for(sp) ==
    IF sp = NoneP THEN filename
    ELSE os_path_join(posixpath_split(sp)[1], posixpath_split(sp)[2])

normalize(sp) ==
    IF sp = NoneP THEN NoneR
    ELSE LET j == safe_join(directory, filename_for(sp))
         IN  IF ~j.ok THEN Raise("NotFound")
             ELSE IF ~os_path_isdir(j.val) THEN Str(rstrip_sep(sp))
             ELSE IF ~endswith_sep(sp) THEN Str(sp \o <<SEP>>)
             ELSE Str(sp)

last_updated(sp) ==
    os_path_getmtime(IF sp # NoneP THEN sp ELSE filename)

\* mimetype and mimetype.startswith('image/'): None when mimetype is None
is_binary(sp) ==
    LET mimetype == mimetype_for(sp)
    IN  IF mimetype = NoneP THEN NoneR ELSE Bool(startswith_image(mimetype))

read_by_file(sp) ==
    IF sp = NoneP THEN read_text_file(filename)
    ELSE LET j == safe_join(directory, filename_for(sp))
         IN  IF ~j.ok THEN Raise("NotFound")
             ELSE LET fn == IF os_path_isdir(j.val) THEN find_file(j.val) ELSE j.val
                  IN  IF fn = NoneP THEN NoneR
                      ELSE IF is_binary(fn) # Bool(TRUE) THEN read_text_file(fn)
                      ELSE read_binary_file(fn)

read(sp) ==
    IF sp = NoneP THEN read_text_file(filename)
    ELSE LET j == safe_join(directory, filename_for(sp))
         IN  IF ~j.ok THEN Raise("NotFound")
             ELSE LET fn == IF os_path_isdir(j.val) THEN find_file(j.val) ELSE j.val
                      is_text == is_binary(sp) # Bool(TRUE)
                  IN  IF fn = NoneP THEN NoneR
                      ELSE IF is_text THEN read_text_file(fn)
                      ELSE read_binary_file(fn)

-----------------------------------------------------------------------------
(* Requests to a DirectoryReader *)

SubTokens == {SEP, ".", "..", "x", "a.png", "README.md"}

Subpaths ==
    { s \in UNION { [1..n -> SubTokens] : n \in 0..MaxLen } :
        \A i \in 1..(Len(s) - 1) : s[i] = SEP \/ s[i + 1] = SEP }
    \cup {NoneP}

\* What the reader is constructed with: the entry file, or the directory d.
Paths == { <<"d", SEP, "README.md">>, <<"d", SEP>>, <<"d">> }

StdinIdle ==
    /\ text = NoneP /\ stdin = <<>> /\ original = <<>> /\ drains = 0 /\ log = <<>>

CallersIdle ==
    /\ pc = [t \in {1, 2} |-> "idle"]
    /\ arg = [t \in {1, 2} |-> NoneP]
    /\ tmp = [t \in {1, 2} |-> <<>>]
    /\ ret = [t \in {1, 2} |-> Idle]
    /\ ncalls = [t \in {1, 2} |-> 0]
    /\ first = "none"

\* DirectoryReader.__init__
Init ==
    /\ kind \in FileSystems
    /\ path \in Paths
    /\ filename = path
    /\ directory = os_path_dirname(path)
    /\ subpath \in Subpaths
    /\ op = "init"
    /\ result = Idle
    /\ StdinIdle
    /\ CallersIdle

Call(name, value) ==
    /\ op' = name
    /\ result' = value
    /\ UNCHANGED <<kind, path, filename, directory, subpath>>
    /\ UNCHANGED stdinVars
    /\ UNCHANGED callerVars

Read == Call("read", read(subpath))
Normalize == Call("normalize", normalize(subpath))
LastUpdated == Call("last_updated", last_updated(subpath))
IsBinary == Call("is_binary", is_binary(subpath))

Next == Read \/ Normalize \/ LastUpdated \/ IsBinary

Spec == Init /\ [][Next]_vars

-----------------------------------------------------------------------------
(* TextReader, StdinReader.  The text is the sequence of pieces read from  *)
(* sys.stdin; '' is <<>>.  read_stdin returns what sys.stdin.read()        *)
(* returns (on Python 3 no decoding follows).                              *)

Inputs == UNION { [1..n -> {"a", "b"}] : n \in 0..MaxInput }

\* Subpaths given to StdinReader.read: None, '' and 'x'
StdinArgs == {NoneP, <<>>, <<"x">>}

Callers == {1, 2}

TextReader_read(t, sp) ==
    IF sp # NoneP THEN NoneR
    ELSE IF t = NoneP THEN NoneR
    ELSE Str(t)

\* a fill that takes the empty text for unset
NeedsFill_falsy(t, sp) == (t = NoneP \/ t = <<>>) /\ sp = NoneP

\* a fill that forgets to look at self.text
NeedsFill_always(t, sp) == sp = NoneP

\* self.text is None and subpath is None
NeedsFill(t, sp) == t = NoneP /\ sp = NoneP

NoDirectoryReader ==
    /\ kind = [n \in Universe |-> IF n = <<>> THEN "dir" ELSE "missing"]
    /\ path = <<>> /\ filename = <<>> /\ directory = <<>>
    /\ subpath = NoneP /\ op = "init" /\ result = Idle

\* StdinReader.__init__, with sys.stdin holding any input
InitStdin ==
    /\ original \in Inputs
    /\ stdin = original
    /\ text = NoneP
    /\ drains = 0
    /\ log = <<>>
    /\ CallersIdle
    /\ NoDirectoryReader

\* StdinReader.read called by the one caller, start to return
StdinRead(sp) ==
    /\ Len(log) < MaxReads
    /\ LET fill == NeedsFill(text, sp)
           filled == IF fill THEN stdin ELSE text
       IN  /\ text' = filled
           /\ stdin' = IF fill THEN <<>> ELSE stdin
           /\ drains' = IF fill THEN drains + 1 ELSE drains
           /\ log' = Append(log, [arg |-> sp,
                                  ret |-> TextReader_read(filled, sp),
                                  drained |-> fill])
    /\ UNCHANGED original
    /\ UNCHANGED dirVars
    /\ UNCHANGED callerVars

NextStdin == \E sp \in StdinArgs : StdinRead(sp)

SpecStdin == InitStdin /\ [][NextStdin]_vars

-----------------------------------------------------------------------------
(* StdinReader.read run by two callers with no lock, statement by          *)
(* statement.  sys.stdin.read() takes the input piece by piece until end   *)
(* of input, so two callers inside it may each get a part.                 *)

Begin(t, sp) ==
    /\ pc[t] = "idle"
    /\ ncalls[t] < MaxCalls
    /\ pc' = [pc EXCEPT ![t] = "check"]
    /\ arg' = [arg EXCEPT ![t] = sp]
    /\ ncalls' = [ncalls EXCEPT ![t] = @ + 1]
    /\ first' = IF first = "none" /\ sp = NoneP
                THEN IF \A u \in Callers \ {t} : pc[u] = "idle"
                     THEN "running" ELSE "dirty"
                ELSE IF first = "running" THEN "dirty"
                ELSE first
    /\ UNCHANGED <<tmp, ret>>
    /\ UNCHANGED stdinVars
    /\ UNCHANGED dirVars

Check(t) ==
    /\ pc[t] = "check"
    /\ IF NeedsFill(text, arg[t])
       THEN /\ pc' = [pc EXCEPT ![t] = "drain"]
            /\ tmp' = [tmp EXCEPT ![t] = <<>>]
            /\ drains' = drains + 1
       ELSE /\ pc' = [pc EXCEPT ![t] = "return"]
            /\ UNCHANGED <<tmp, drains>>
    /\ UNCHANGED <<arg, ret, ncalls, first, text, stdin, original, log>>
    /\ UNCHANGED dirVars

ReadPiece(t) ==
    /\ pc[t] = "drain"
    /\ stdin # <<>>
    /\ tmp' = [tmp EXCEPT ![t] = Append(@, Head(stdin))]
    /\ stdin' = Tail(stdin)
    /\ UNCHANGED <<pc, arg, ret, ncalls, first, text, original, drains, log>>
    /\ UNCHANGED dirVars

ReadEnd(t) ==
    /\ pc[t] = "drain"
    /\ stdin = <<>>
    /\ pc' = [pc EXCEPT ![t] = "store"]
    /\ UNCHANGED <<arg, tmp, ret, ncalls, first>>
    /\ UNCHANGED stdinVars
    /\ UNCHANGED dirVars

Store(t) ==
    /\ pc[t] = "store"
    /\ text' = tmp[t]
    /\ pc' = [pc EXCEPT ![t] = "return"]
    /\ UNCHANGED <<arg, tmp, ret, ncalls, first, stdin, original, drains, log>>
    /\ UNCHANGED dirVars

Return(t) ==
    /\ pc[t] = "return"
    /\ ret' = [ret EXCEPT ![t] = TextReader_read(text, arg[t])]
    /\ pc' = [pc EXCEPT ![t] = "idle"]
    /\ first' = IF first = "running" THEN "clean" ELSE first
    /\ UNCHANGED <<arg, tmp, ncalls>>
    /\ UNCHANGED stdinVars
    /\ UNCHANGED dirVars

NextConc ==
    \E t \in Callers :
        \/ \E sp \in StdinArgs : Begin(t, sp)
        \/ Check(t)
        \/ ReadPiece(t)
        \/ ReadEnd(t)
        \/ Store(t)
        \/ Return(t)

SpecConc == InitStdin /\ [][NextConc]_vars

-----------------------------------------------------------------------------
(* Properties of DirectoryReader, under Spec *)

IsPrefix(a, b) == Len(a) <= Len(b) /\ SubSeq(b, 1, Len(a)) = a

\* The node of the base directory; '' is the working directory.
BaseNode == IF directory = <<>> THEN <<>> ELSE Resolve(directory).node

\* Where read(subpath) looks: the subpath joined to the base directory.
Joined == safe_join(directory, filename_for(subpath))

\* C1: read never returns the content of a file outside the subtree of the
\* base directory: it returns content of a file inside it, None, or raises.
ThmC1 ==
    (op = "read" /\ result.kind \in {"str", "bytes"}) =>
        \E n \in Universe :
            /\ kind[n] = "file"
            /\ IsPrefix(BaseNode, n)
            /\ result.val = FileData(n)

\* read('../x') from base directory d, with /x an existing file, raises.
WitC1 ==
    /\ op = "read"
    /\ directory = <<"d">>
    /\ subpath = <<"..", SEP, "x">>
    /\ kind[<<"x">>] = "file"
    /\ result = Raise("NotFound")

\* C3: last_updated(subpath) returns the mtime of the location that
\* read(subpath) resolves to inside the base directory, and the mtime of the
\* entry filename when the subpath is None.
CexC3 ==
    (/\ op = "last_updated"
     /\ directory # <<>>
     /\ (subpath # NoneP => Joined.ok /\ Resolve(Joined.val).err = "OK")) =>
        result = IF subpath = NoneP THEN os_path_getmtime(filename)
                 ELSE os_path_getmtime(Joined.val)

\* The requested file does not exist somewhere along the resolution of
\* read(subpath): a component is missing or is a regular file, or the
\* directory reached has no default entry file.
NotFoundInChain ==
    /\ subpath # NoneP
    /\ Joined.ok
    /\ \/ Resolve(Joined.val).err \in {"ENOENT", "ENOTDIR"}
       \/ (os_path_isdir(Joined.val) /\ find_file(Joined.val) = NoneP)

\* C4: when the requested file does not exist at any point of the
\* resolution chain, read returns None and never raises.
CexC4 == (op = "read" /\ NotFoundInChain) => result = NoneR

\* C5: a reader constructed with a directory that contains README.md
\* returns the text of that README.md from read(None).
CexC5 ==
    (/\ op = "read"
     /\ subpath = NoneP
     /\ os_path_isdir(path)
     /\ os_path_isfile(os_path_join(path, <<"README.md">>))) =>
        result = Str(FileData(Resolve(os_path_join(path, <<"README.md">>)).node))

\* C6: normalize is idempotent: normalizing what normalize returned
\* completes and returns the same subpath.
CexC6 ==
    (op = "normalize" /\ subpath # NoneP /\ result.kind = "str") =>
        normalize(result.val) = result

TrailingSeps(s) == Len(s) - Len(rstrip_sep(s))

\* C7: for a subpath that resolves to a file normalize returns it with no
\* trailing slash, and for one that resolves to a directory it returns it
\* with exactly one trailing slash.
CexC7 ==
    (op = "normalize" /\ subpath # NoneP /\ Joined.ok /\ result.kind = "str") =>
        /\ os_path_isfile(Joined.val) => TrailingSeps(result.val) = 0
        /\ os_path_isdir(Joined.val) => TrailingSeps(result.val) = 1

\* The subpath resolves to a directory inside the base directory.
ReadsDirectory == subpath # NoneP /\ Joined.ok /\ os_path_isdir(Joined.val)

ImageEntry == os_path_join(Joined.val, <<"README.png">>)

\* C8 as stated: read of a subpath resolving to a directory whose only
\* README is the image README.png returns the raw bytes of that file.
CexC8 ==
    (/\ op = "read"
     /\ ReadsDirectory
     /\ os_path_isfile(ImageEntry)
     /\ ~os_path_isfile(os_path_join(Joined.val, <<"README.md">>))) =>
        result = Bytes(FileData(Resolve(ImageEntry).node))

\* C8 amended: read of a subpath resolving to a directory returns None when
\* the directory has none of the default filenames (README.png is none of
\* them), and otherwise the content of the default file found, as raw bytes
\* exactly when is_binary of the subpath as spelled is True.
ThmC8 ==
    (op = "read" /\ ReadsDirectory) =>
        LET entry == find_file(Joined.val)
        IN  /\ entry = NoneP => result = NoneR
            /\ entry # NoneP =>
                /\ result.kind \in {"str", "bytes"}
                /\ result.val = FileData(Resolve(entry).node)
                /\ result.kind = "bytes" <=> is_binary(subpath) = Bool(TRUE)
            /\ endswith_sep(subpath) => result.kind # "bytes"

\* read('x/') where d/x holds README.png and no README.md returns None.
WitC8 ==
    /\ op = "read"
    /\ directory = <<"d">>
    /\ subpath = <<"x", SEP>>
    /\ kind[<<"d", "x", "README.png">>] = "file"
    /\ kind[<<"d", "x", "README.md">>] = "missing"
    /\ result = NoneR

\* C9: is_binary returns the boolean True exactly when the guessed MIME
\* type starts with 'image/', and the boolean False in every other case.
CexC9 ==
    op = "is_binary" =>
        result = Bool(mimetype_for(subpath) # NoneP
                      /\ startswith_image(mimetype_for(subpath)))

-----------------------------------------------------------------------------
(* Properties of StdinReader *)

\* C2, under SpecStdin: sys.stdin is drained at most once; the first
\* read(None) drains it, every read(None) returns the whole input, and a
\* read with a subpath returns None and never drains.
ThmC2 ==
    /\ drains <= 1
    /\ \A i \in 1..Len(log) :
        /\ log[i].arg # NoneP => (log[i].ret = NoneR /\ ~log[i].drained)
        /\ log[i].arg = NoneP =>
            /\ log[i].ret = Str(original)
            /\ log[i].drained <=> \A j \in 1..(i - 1) : log[j].arg # NoneP

\* Two read(None) calls on an empty input.
WitC2 ==
    /\ original = <<>>
    /\ Len(log) >= 2
    /\ log[1].arg = NoneP
    /\ log[2].arg = NoneP
    /\ log[2].ret = Str(<<>>)
    /\ drains = 1

\* C10, under SpecConc: as long as the first read(None) runs with no other
\* call in progress, sys.stdin is drained at most once and every finished
\* read(None) returns the whole input; two drains happen only when the
\* first read(None) overlapped another call.
ThmC10 ==
    /\ first \in {"running", "clean"} => drains <= 1
    /\ first = "clean" =>
        /\ text = original
        /\ \A t \in Callers :
            (pc[t] = "idle" /\ ncalls[t] > 0 /\ arg[t] = NoneP) =>
                ret[t] = Str(original)
    /\ drains >= 2 => first = "dirty"

\* Both callers found the text unset, both drained, and their read(None)
\* calls returned different content.
WitC10 ==
    /\ drains = 2
    /\ \A t \in Callers : pc[t] = "idle" /\ ncalls[t] = 1 /\ arg[t] = NoneP
    /\ ret[1] # ret[2]

====
